---- MODULE Spec2Model ----
(***************************************************************************)
(* BambuConnectorViewModel                                                 *)
(* (src/octoprint_bambu_connector/static/js/bambu_connector.js).           *)
(*                                                                         *)
(* The view model owns three Knockout observables (lastUpdated,            *)
(* modelOptions, currentModel) and one handler, onConnectionDataReceived,  *)
(* which the host calls with the connector parameters and three connection *)
(* snapshots.  JavaScript runs the handler to completion, so one call is   *)
(* one action; the order of its statements is kept by threading a record m *)
(* of the observables through one operator per statement, and every        *)
(* observable write is logged in m.writes the way a subscriber sees it.    *)
(*                                                                         *)
(* JavaScript values.  A string-valued slot holds a string or `undefined`. *)
(* An object slot is a record with a field `defined`: FALSE stands for a   *)
(* missing object (undefined), on which a property read throws TypeError.  *)
(* The models value is [type, items]: type "array" with its items, or      *)
(* "undefined" (absent), or "object" (some non-array value without .map).  *)
(***************************************************************************)
EXTENDS Integers, Sequences, FiniteSets, TLC

VARIABLES
    lastUpdated,    \* self.lastUpdated: false, or the time of the last completed call
    modelOptions,   \* self.modelOptions: the value last written to the observable array
    currentModel,   \* self.currentModel: undefined or a model key
    now,            \* the wall clock read by new Date().getTime()
    invoked,        \* whether the handler has been called at all
    call            \* the invocation that has just ended, until the host moves on:
                    \* its arguments, the observables before it, how it ended
                    \* and the writes it made

vars == <<lastUpdated, modelOptions, currentModel, now, invoked, call>>

(* Largest wall-clock value the model lets the clock reach. *)
MaxClock == 1

(* ko.observable(false): lastUpdated before any write.  Times are >= 0. *)
NotUpdated == -1

(* The JavaScript value undefined, where a string may stand. *)
undefined == "undefined"

(* The connector name the handler looks for. *)
bambu == "bambu"

(* Model keys the host may name. *)
Keys == {"A", "B"}

(* ----------------------------- values -------------------------------- *)

(* A ModelOption {key: k}. *)
ModelOption(k) == [defined |-> TRUE, key |-> k]

(* An array of model options. *)
Array(items) == [type |-> "array", items |-> items]

(* A connection snapshot {connector: c, parameters: {model: mdl}}. *)
ConnectionState(c, mdl) ==
    [defined |-> TRUE, connector |-> c,
     parameters |-> [defined |-> TRUE, model |-> mdl]]

(* The connector parameters {bambu: {model: models}}. *)
Parameters(models) == [bambu |-> [defined |-> TRUE, model |-> models]]

(* The sequences over S without repetition: a list of models has unique keys. *)
Lists(S) ==
    UNION {{s \in [1..n -> S] : \A i, j \in 1..n : i # j => s[i] # s[j]}
           : n \in 0..Cardinality(S)}

(* The arguments the host passes: the shapes of the data model. *)
ModelLists == {Array(s) : s \in Lists({ModelOption(k) : k \in Keys})}

ParametersValues == {Parameters(l) : l \in ModelLists}

ConnectionStates ==
    {ConnectionState(c, mdl) : c \in {bambu, "serial"}, mdl \in Keys \cup {undefined}}

(* Arguments with fields missing.  The handler is a plain JavaScript
   function: nothing keeps a caller from passing them. *)

(* A snapshot that is not there at all. *)
Missing ==
    [defined |-> FALSE, connector |-> undefined,
     parameters |-> [defined |-> FALSE, model |-> undefined]]

(* A snapshot {connector: c} without its parameters object. *)
WithoutParameters(c) ==
    [defined |-> TRUE, connector |-> c,
     parameters |-> [defined |-> FALSE, model |-> undefined]]

(* null as an entry of the models array. *)
Null == [defined |-> FALSE, key |-> undefined]

(* The connector parameters without an entry for this connector. *)
WithoutBambu ==
    [bambu |-> [defined |-> FALSE, model |-> [type |-> "undefined", items |-> <<>>]]]

(* Snapshots, well-formed and not: over one key, with a snapshot missing, a
   parameters object missing, and a connector field missing. *)
AnyConnectionStates ==
    {ConnectionState(c, mdl) : c \in {bambu, "serial", undefined},
                               mdl \in {"A", undefined}}
      \cup {Missing, WithoutParameters(bambu), WithoutParameters("serial")}

(* Models values, well-formed and not: absent, not an array, an array with a
   null entry, an array with an entry without key. *)
AnyModels ==
    {Array(<<>>), Array(<<ModelOption("A")>>),
     [type |-> "undefined", items |-> <<>>],
     [type |-> "object", items |-> <<>>],
     Array(<<ModelOption("A"), Null>>),
     Array(<<ModelOption(undefined), ModelOption("A")>>)}

AnyParametersValues == {Parameters(l) : l \in AnyModels} \cup {WithoutBambu}

(* ------------------------ the handler's statements -------------------- *)

(* An uncaught TypeError: the rest of the handler does not run. *)
TypeError(m) == [m EXCEPT !.thrown = TRUE]

(* observable(value): store the value; the write is logged with the model
   list a subscriber notified of it sees at that moment. *)
Write(m, observable, value) ==
    LET w == [m EXCEPT ![observable] = value]
    IN  [w EXCEPT !.writes =
            Append(@, [observable |-> observable, modelOptions |-> w.modelOptions])]

(* const models = parameters.bambu.model  (line 21) *)
ReadModels(m, parameters) ==
    IF m.thrown \/ parameters.bambu.defined THEN m ELSE TypeError(m)

(* CanRead as it would be were X.parameters.model read before the connector
   is tested. *)
CanReadEager(snapshot) ==
    snapshot.defined /\ snapshot.parameters.defined

(* Whether X.connector === "bambu" ? X.parameters.model : undefined can be
   evaluated: X.parameters is read only when the connector is "bambu". *)
CanRead(snapshot) ==
    /\ snapshot.defined
    /\ snapshot.connector = bambu => snapshot.parameters.defined

(* snapshotModel without the test of the connector. *)
snapshotModelUngated(snapshot) == snapshot.parameters.model

(* X.connector === "bambu" ? X.parameters.model : undefined.  (preferred is
   compared with ==, which agrees with === on a string or undefined.) *)
snapshotModel(snapshot) ==
    IF snapshot.connector = bambu THEN snapshot.parameters.model ELSE undefined

(* One of the three const declarations of lines 23-28. *)
ReadSnapshot(m, snapshot) ==
    IF m.thrown \/ CanRead(snapshot) THEN m ELSE TypeError(m)

(* WriteModelOptions as if (models.length) self.modelOptions(models). *)
WriteModelOptionsIfAny(m, models) ==
    IF m.thrown \/ Len(models.items) = 0 THEN m ELSE Write(m, "modelOptions", models)

(* WriteModelOptions as self.modelOptions(models || []). *)
WriteModelOptionsOrEmpty(m, models) ==
    IF m.thrown THEN m
    ELSE Write(m, "modelOptions",
               IF models.type = "undefined" THEN [type |-> "array", items |-> <<>>]
               ELSE models)

(* self.modelOptions(models)  (line 30) *)
WriteModelOptions(m, models) ==
    IF m.thrown THEN m ELSE Write(m, "modelOptions", models)

(* Whether models.map((item) => item.key) can be evaluated. *)
CanMap(models) ==
    /\ models.type = "array"
    /\ \A i \in 1..Len(models.items) : models.items[i].defined

(* models.map((item) => item.key)  (line 32) *)
modelKeys(models) == [i \in 1..Len(models.items) |-> models.items[i].key]

MapKeys(m, models) ==
    IF m.thrown \/ CanMap(models) THEN m ELSE TypeError(m)

(* Array.prototype.indexOf: the first index (from 0) of x, or -1. *)
indexOf(s, x) ==
    IF \E i \in 1..Len(s) : s[i] = x
    THEN (CHOOSE i \in 1..Len(s) : s[i] = x /\ \A j \in 1..(i - 1) : s[j] # x) - 1
    ELSE -1

(* Select with the branches for current and last in the other order. *)
SelectLastFirst(m, keys, currentKey, lastKey, preferredKey) ==
    IF m.thrown THEN m
    ELSE IF lastKey # undefined /\ indexOf(keys, lastKey) >= 0
         THEN Write(m, "currentModel", lastKey)
    ELSE IF currentKey # undefined /\ indexOf(keys, currentKey) >= 0
         THEN Write(m, "currentModel", currentKey)
    ELSE IF preferredKey # undefined /\ indexOf(keys, preferredKey) >= 0
         THEN Write(m, "currentModel", preferredKey)
    ELSE m

(* Select with a final else that clears the selection. *)
SelectOrReset(m, keys, currentKey, lastKey, preferredKey) ==
    IF m.thrown THEN m
    ELSE IF currentKey # undefined /\ indexOf(keys, currentKey) >= 0
         THEN Write(m, "currentModel", currentKey)
    ELSE IF lastKey # undefined /\ indexOf(keys, lastKey) >= 0
         THEN Write(m, "currentModel", lastKey)
    ELSE IF preferredKey # undefined /\ indexOf(keys, preferredKey) >= 0
         THEN Write(m, "currentModel", preferredKey)
    ELSE Write(m, "currentModel", undefined)

(* Select whose last branch does not look the preferred model up in the keys. *)
SelectPreferredUnchecked(m, keys, currentKey, lastKey, preferredKey) ==
    IF m.thrown THEN m
    ELSE IF currentKey # undefined /\ indexOf(keys, currentKey) >= 0
         THEN Write(m, "currentModel", currentKey)
    ELSE IF lastKey # undefined /\ indexOf(keys, lastKey) >= 0
         THEN Write(m, "currentModel", lastKey)
    ELSE IF preferredKey # undefined
         THEN Write(m, "currentModel", preferredKey)
    ELSE m

(* The if / else if chain of lines 33-44; modelKeys, an array, is truthy. *)
Select(m, keys, currentKey, lastKey, preferredKey) ==
    IF m.thrown THEN m
    ELSE IF currentKey # undefined /\ indexOf(keys, currentKey) >= 0
         THEN Write(m, "currentModel", currentKey)
    ELSE IF lastKey # undefined /\ indexOf(keys, lastKey) >= 0
         THEN Write(m, "currentModel", lastKey)
    ELSE IF preferredKey # undefined /\ indexOf(keys, preferredKey) >= 0
         THEN Write(m, "currentModel", preferredKey)
    ELSE m

(* WriteLastUpdated inside the if: only a call that selected a model stamps. *)
WriteLastUpdatedIfSelected(m, time) ==
    IF m.thrown \/ \A i \in 1..Len(m.writes) : m.writes[i].observable # "currentModel"
    THEN m
    ELSE Write(m, "lastUpdated", time)

(* self.lastUpdated(new Date().getTime())  (line 46) *)
WriteLastUpdated(m, time) ==
    IF m.thrown THEN m ELSE Write(m, "lastUpdated", time)

(* Run with the selection made before the model list is replaced. *)
RunSelectFirst(m, parameters, current, last, preferred, time) ==
    LET models == parameters.bambu.model
        m21 == ReadModels(m, parameters)
        m24 == ReadSnapshot(m21, current)
        m26 == ReadSnapshot(m24, last)
        m28 == ReadSnapshot(m26, preferred)
        m32 == MapKeys(m28, models)
        m44 == Select(m32, modelKeys(models), snapshotModel(current),
                      snapshotModel(last), snapshotModel(preferred))
        m30 == WriteModelOptions(m44, models)
    IN  WriteLastUpdated(m30, time)

(* Run with the time stamp written first. *)
RunStampFirst(m, parameters, current, last, preferred, time) ==
    LET models == parameters.bambu.model
        m46 == WriteLastUpdated(m, time)
        m21 == ReadModels(m46, parameters)
        m24 == ReadSnapshot(m21, current)
        m26 == ReadSnapshot(m24, last)
        m28 == ReadSnapshot(m26, preferred)
        m30 == WriteModelOptions(m28, models)
        m32 == MapKeys(m30, models)
    IN  Select(m32, modelKeys(models), snapshotModel(current),
               snapshotModel(last), snapshotModel(preferred))

(* The body of onConnectionDataReceived, statement by statement. *)
Run(m, parameters, current, last, preferred, time) ==
    LET models == parameters.bambu.model
        m21 == ReadModels(m, parameters)
        m24 == ReadSnapshot(m21, current)
        m26 == ReadSnapshot(m24, last)
        m28 == ReadSnapshot(m26, preferred)
        m30 == WriteModelOptions(m28, models)
        m32 == MapKeys(m30, models)
        m44 == Select(m32, modelKeys(models), snapshotModel(current),
                      snapshotModel(last), snapshotModel(preferred))
    IN  WriteLastUpdated(m44, time)

(* ------------------------------ actions ------------------------------- *)

(* No invocation is on record. *)
NoCall ==
    [outcome |-> "none",
     parameters |-> Parameters(Array(<<>>)),
     current |-> ConnectionState("serial", undefined),
     last |-> ConnectionState("serial", undefined),
     preferred |-> ConnectionState("serial", undefined),
     before |-> [currentModel |-> undefined, lastUpdated |-> NotUpdated,
                 modelOptions |-> Array(<<>>)],
     writes |-> <<>>]

(* The state after construction (lines 15-18); no call has been made. *)
Init ==
    /\ lastUpdated = NotUpdated
    /\ modelOptions = Array(<<>>)
    /\ currentModel = undefined
    /\ now = 0
    /\ invoked = FALSE
    /\ call = NoCall

(* One call of the handler, which runs to completion. *)
onConnectionDataReceived(parameters, current, last, preferred) ==
    LET m == Run([lastUpdated |-> lastUpdated, modelOptions |-> modelOptions,
                  currentModel |-> currentModel, writes |-> <<>>,
                  thrown |-> FALSE],
                 parameters, current, last, preferred, now)
    IN  /\ invoked' = TRUE
        /\ lastUpdated' = m.lastUpdated
        /\ modelOptions' = m.modelOptions
        /\ currentModel' = m.currentModel
        /\ call' = [outcome |-> IF m.thrown THEN "TypeError" ELSE "returned",
                    parameters |-> parameters,
                    current |-> current, last |-> last, preferred |-> preferred,
                    before |-> [currentModel |-> currentModel,
                                lastUpdated |-> lastUpdated,
                                modelOptions |-> modelOptions],
                    writes |-> m.writes]
        /\ UNCHANGED now

(* Wall-clock time passes; the clock never runs backwards. *)
Tick ==
    /\ now < MaxClock
    /\ now' = now + 1
    /\ UNCHANGED <<lastUpdated, modelOptions, currentModel, invoked, call>>

(* Control is back in the host: the invocation's arguments and locals are
   gone; the observables keep what it wrote. *)
Return ==
    /\ call.outcome # "none"
    /\ call' = NoCall
    /\ UNCHANGED <<lastUpdated, modelOptions, currentModel, now, invoked>>

(* The host dispatches connection data, with parameters from P and snapshots
   from S (single-threaded: the handler is not entered again before the
   previous call has ended). *)
Dispatch(P, S) ==
    /\ call.outcome = "none"
    /\ \E parameters \in P, current \in S, last \in S, preferred \in S :
            onConnectionDataReceived(parameters, current, last, preferred)

Next ==
    \/ Tick
    \/ Return
    \/ Dispatch(ParametersValues, ConnectionStates)

Spec == Init /\ [][Next]_vars

(* The same program called with arguments that may lack fields. *)
NextMalformed ==
    \/ Tick
    \/ Return
    \/ Dispatch(AnyParametersValues, AnyConnectionStates)

SpecMalformed == Init /\ [][NextMalformed]_vars

(* ---------------------------- properties ------------------------------ *)

(* An invocation has just ended / returned normally / was aborted. *)
Called == call.outcome # "none"
Returned == call.outcome = "returned"
Threw == call.outcome = "TypeError"

(* parameters.bambu.model of the invocation, and its valid set of keys. *)
SuppliedModels == call.parameters.bambu.model

KeysOf(models) ==
    {models.items[i].key : i \in 1..Len(models.items)} \ {undefined}

SuppliedKeys == KeysOf(SuppliedModels)

(* The snapshot's connector is "bambu" and its model is a key of the list. *)
Resolves(snapshot) ==
    /\ snapshot.connector = bambu
    /\ snapshot.parameters.model \in SuppliedKeys

NoneResolves ==
    ~Resolves(call.current) /\ ~Resolves(call.last) /\ ~Resolves(call.preferred)

(* The invocation wrote currentModel. *)
WroteCurrentModel ==
    \E i \in 1..Len(call.writes) : call.writes[i].observable = "currentModel"

(* C1, as stated: in every reachable state currentModel, if set, is the key
   of some entry of the current modelOptions list. *)
C1_CurrentModelAmongOptions ==
    currentModel # undefined => currentModel \in KeysOf(modelOptions)

(* C1, amended: after an invocation that wrote currentModel (some snapshot
   matched), currentModel is the key of an entry of modelOptions; an
   invocation that did not write it leaves the value it had, whether or not
   the new list still has that key. *)
C1_WrittenModelAmongOptions ==
    Called =>
        IF WroteCurrentModel
        THEN currentModel \in KeysOf(modelOptions)
        ELSE currentModel = call.before.currentModel

C1_Witness ==
    /\ Called /\ WroteCurrentModel
    /\ call.before.currentModel \in Keys
    /\ currentModel # call.before.currentModel
    /\ call.before.currentModel \notin KeysOf(modelOptions)

(* C2: after the handler has returned, currentModel is the model of the
   first of current, last, preferred (in this order) whose connector is
   "bambu" and whose model is a key of the supplied list. *)
C2_StrictPrecedence ==
    Returned =>
        /\ Resolves(call.current) => currentModel = call.current.parameters.model
        /\ ~Resolves(call.current) /\ Resolves(call.last)
              => currentModel = call.last.parameters.model
        /\ ~Resolves(call.current) /\ ~Resolves(call.last) /\ Resolves(call.preferred)
              => currentModel = call.preferred.parameters.model

C2_Witness ==
    /\ Returned
    /\ Resolves(call.current) /\ Resolves(call.last) /\ Resolves(call.preferred)
    /\ call.current.parameters.model # call.last.parameters.model
    /\ call.before.currentModel = call.last.parameters.model
    /\ currentModel = call.current.parameters.model

(* C3: when no snapshot has connector "bambu" with a model that is a key of
   the supplied list, the invocation does not write currentModel: it keeps
   the value it had before the call, also one that is no key of the new list. *)
C3_NoMatchKeepsCurrentModel ==
    Called /\ NoneResolves =>
        currentModel = call.before.currentModel /\ ~WroteCurrentModel

C3_Witness ==
    /\ Called /\ NoneResolves
    /\ call.before.currentModel \in Keys
    /\ call.before.currentModel \notin SuppliedKeys
    /\ Len(SuppliedModels.items) > 0
    /\ currentModel = call.before.currentModel

(* C4: modelOptions is the empty list until the first invocation, and after
   an invocation it is the array that invocation supplied, entry by entry,
   whether or not a snapshot matched. *)
C4_ModelOptionsMirrorSupplied ==
    /\ ~invoked => modelOptions = Array(<<>>)
    /\ Called => modelOptions = SuppliedModels

C4_Witness ==
    /\ Called /\ NoneResolves
    /\ Len(call.before.modelOptions.items) = 2
    /\ modelOptions = Array(<<>>)
    /\ modelOptions = SuppliedModels

(* C5: lastUpdated is false exactly until the first invocation; every
   invocation writes it, as its last write, with a value not below the one
   it held before. *)
C5_LastUpdatedMonotonic ==
    /\ invoked <=> lastUpdated # NotUpdated
    /\ Called =>
        /\ Len(call.writes) > 0
        /\ call.writes[Len(call.writes)].observable = "lastUpdated"
        /\ lastUpdated >= 0
        /\ lastUpdated >= call.before.lastUpdated

C5_Witness ==
    /\ Called /\ NoneResolves
    /\ call.before.lastUpdated # NotUpdated
    /\ lastUpdated > call.before.lastUpdated

(* The arguments of the invocation lack a field. *)
LacksField(snapshot) ==
    \/ ~snapshot.defined
    \/ ~snapshot.parameters.defined
    \/ snapshot.connector = undefined
    \/ snapshot.parameters.model = undefined

SomeFieldMissing ==
    \/ ~call.parameters.bambu.defined
    \/ LacksField(call.current) \/ LacksField(call.last) \/ LacksField(call.preferred)

(* The models value is an array, none of whose entries is null. *)
IsArrayWithoutNull(models) ==
    /\ models.type = "array"
    /\ \A i \in 1..Len(models.items) : models.items[i].defined

(* The snapshot is there, with its parameters object if it is a bambu one. *)
Readable(snapshot) ==
    /\ snapshot.defined
    /\ snapshot.connector # bambu \/ snapshot.parameters.defined

ArgumentsReadable ==
    /\ call.parameters.bambu.defined
    /\ Readable(call.current) /\ Readable(call.last) /\ Readable(call.preferred)

(* C6, as stated: an invocation whose arguments lack a field completes
   normally and, nothing matching, leaves currentModel as it was. *)
C6_NoErrorOnMissingFields ==
    Called /\ SomeFieldMissing =>
        /\ Returned
        /\ NoneResolves => currentModel = call.before.currentModel

(* C6, amended: the invocation raises no error when what is missing is a
   snapshot's model, a snapshot's connector, or the parameters object of a
   snapshot whose connector is not "bambu": that snapshot does not match.  It
   aborts with a TypeError exactly when a snapshot is missing, a snapshot
   with connector "bambu" has no parameters object, the parameters argument
   has no bambu entry, or the models value is not an array or has a null
   entry.  Either way currentModel is unchanged when no snapshot matches. *)
C6_ErrorsOnMissingFields ==
    Called =>
        /\ Returned <=> ArgumentsReadable /\ IsArrayWithoutNull(SuppliedModels)
        /\ NoneResolves => currentModel = call.before.currentModel

C6_Witness ==
    /\ Returned
    /\ call.current = WithoutParameters("serial")
    /\ call.last.connector = undefined
    /\ call.last.parameters.model \in SuppliedKeys
    /\ call.preferred.connector = bambu
    /\ call.preferred.parameters.model = undefined
    /\ call.before.currentModel = undefined
    /\ currentModel = undefined

(* C7, as stated: when the models value is absent or malformed, the
   invocation completes and modelOptions is the empty list. *)
C7_MalformedModelsGiveEmptyList ==
    Called /\ ~IsArrayWithoutNull(SuppliedModels) =>
        Returned /\ modelOptions = Array(<<>>)

(* C7, amended: when the models value is absent, is not an array or has a
   null entry, the invocation aborts with a TypeError; modelOptions then holds
   that value as it was supplied (undefined, the non-array value, the array
   with its null entry) if the arguments could be read, and its previous
   value otherwise. *)
C7_MalformedModelsStoredAsSupplied ==
    Called /\ ~IsArrayWithoutNull(SuppliedModels) =>
        /\ Threw
        /\ modelOptions = IF ArgumentsReadable THEN SuppliedModels
                          ELSE call.before.modelOptions

C7_Witness ==
    /\ Threw /\ ArgumentsReadable
    /\ SuppliedModels.type = "undefined"
    /\ call.before.modelOptions = Array(<<ModelOption("A")>>)
    /\ modelOptions = SuppliedModels

(* C8: a snapshot whose connector is not "bambu" does not contribute its
   model, even one that is a key of the supplied list: the selection falls
   to the next snapshot, and with no bambu snapshot nothing is selected. *)
C8_OnlyBambuSnapshotsContribute ==
    Returned =>
        /\ call.current.connector # bambu /\ Resolves(call.last)
              => currentModel = call.last.parameters.model
        /\ call.current.connector # bambu /\ call.last.connector # bambu
              /\ Resolves(call.preferred)
              => currentModel = call.preferred.parameters.model
        /\ call.current.connector # bambu /\ call.last.connector # bambu
              /\ call.preferred.connector # bambu
              => currentModel = call.before.currentModel

C8_Witness ==
    /\ Returned
    /\ call.current.connector # bambu
    /\ call.current.parameters.model \in SuppliedKeys
    /\ Resolves(call.last)
    /\ call.last.parameters.model # call.current.parameters.model
    /\ call.before.currentModel = call.current.parameters.model
    /\ currentModel = call.last.parameters.model

(* C9: the writes of one invocation come in the order modelOptions, then
   currentModel at most once, then lastUpdated, and the subscribers notified
   of each of them see the model list of this invocation. *)
C9_WriteOrder ==
    Called =>
        LET w == call.writes
        IN  /\ Len(w) \in {2, 3}
            /\ w[1].observable = "modelOptions"
            /\ w[Len(w)].observable = "lastUpdated"
            /\ Len(w) = 3 => w[2].observable = "currentModel"
            /\ \A i \in 1..Len(w) : w[i].modelOptions = SuppliedModels

C9_Witness ==
    /\ Called
    /\ Len(call.writes) = 3
    /\ call.before.modelOptions # modelOptions
    /\ call.before.currentModel \in Keys
    /\ call.before.currentModel # currentModel
    /\ call.before.currentModel \notin KeysOf(modelOptions)

(* C10: an invocation aborted by a TypeError has written neither currentModel
   nor lastUpdated: both hold the values from before the call, and the only
   write it can have made is the one of modelOptions. *)
C10_AbortKeepsSelectionAndStamp ==
    Threw =>
        /\ currentModel = call.before.currentModel
        /\ lastUpdated = call.before.lastUpdated
        /\ \A i \in 1..Len(call.writes) : call.writes[i].observable = "modelOptions"

C10_Witness ==
    /\ Threw
    /\ Resolves(call.current)
    /\ call.before.currentModel # call.current.parameters.model
    /\ call.before.lastUpdated # NotUpdated
    /\ call.before.lastUpdated < now
    /\ call.before.modelOptions # modelOptions
    /\ modelOptions = SuppliedModels

====
